---- MODULE Spec2Model ----
(***************************************************************************)
(* Incremental file discovery of cloud_services/storage_providers.py:      *)
(* S3Service.files_discovery and AzureBlobService.files_discovery.         *)
(*                                                                         *)
(* A container is a listing of objects (metadata plus stored content) in   *)
(* key order, served in pages.  Each discovery call keeps its own          *)
(* ingested_set, seen_identifiers and discovered_paths and walks the       *)
(* listing one page and one object at a time.                              *)
(***************************************************************************)
EXTENDS Integers, Sequences, FiniteSets, TLC

VARIABLES
    container,  \* the backend and what it lists and stores
    live,       \* the calls that the host makes
    offered,    \* the argument values that the host passes
    calls       \* per call: its arguments, locals and position

vars == <<container, live, offered, calls>>

(***************************************************************************)
(* Bounds of the model.                                                    *)
(***************************************************************************)
\* Largest number of objects in a listing.
MaxObjects == 2
\* Objects per listing page (list_objects_v2 serves 1000; scaled down).
PageSize == 1
\* Number of discovery calls that may run interleaved.
NumCalls == 2

(***************************************************************************)
(* Program constants.                                                      *)
(***************************************************************************)
\* file_obj.read(8192)
ChunkSize == 8192
\* max_file_size_mb * 1024 * 1024
BytesPerMb == 1024 * 1024
\* max_file_size_mb: int = 500
DefaultMaxFileSizeMb == 500

Backends == {"s3", "azure"}
CallIds == 1..NumCalls

NoTime == 0 - 1
NoResult == <<"no result">>
BucketName == "bkt"

Min(a, b) == IF a <= b THEN a ELSE b
Range(s) == {s[i] : i \in 1..Len(s)}

(***************************************************************************)
(* Listed objects.  Key, Size and LastModified are what the listing        *)
(* reports (LastModified in milliseconds since the epoch, NoTime when the  *)
(* listing carries none); Body is the stored content and ReadError the     *)
(* error that fetching or reading it raises ("none" when it reads).        *)
(***************************************************************************)
KeyOrder == <<"a", "b/", "c">>
Keys == Range(KeyOrder)

Bodies == {"", "a", "b", "c"}
ReadErrors == {"none", "ClientError"}
Sizes == {0, BytesPerMb, BytesPerMb + 1}
Times == {NoTime, 50000, 50999, 51000}

\* Contents of one size: identical contents have identical sizes.
BodiesOfSize(size) ==
    IF size = 0 THEN {""}
    ELSE IF size = BytesPerMb THEN {"a", "b"}
    ELSE {"c"}

ObjectDomain ==
    {o \in [Key : Keys, Size : Sizes, LastModified : Times,
            Body : Bodies, ReadError : ReadErrors] :
        /\ o.Body \in BodiesOfSize(o.Size)
        /\ o.ReadError # "none" => o.Body \in {"", "a"}}

\* Listings are in key order, without repeated keys, as both services list:
\* the listings of at most n objects whose keys have rank r or more.
RECURSIVE ListingsFrom(_, _)
ListingsFrom(r, n) ==
    IF n = 0 \/ r > Len(KeyOrder) THEN {<<>>}
    ELSE {<<>>} \cup
         UNION {{<<o>> \o l : o \in {x \in ObjectDomain : x.Key = KeyOrder[q]},
                              l \in ListingsFrom(q + 1, n - 1)} :
                q \in r..Len(KeyOrder)}

Listings == ListingsFrom(1, MaxObjects)

\* The listing of the documented end-to-end example:
\* a (1MB, t=100), b/ (0 bytes, t=200), c (600MB, t=300).
ExampleListing ==
    << [Key |-> "a", Size |-> BytesPerMb, LastModified |-> 100000,
        Body |-> "a", ReadError |-> "none"],
       [Key |-> "b/", Size |-> 0, LastModified |-> 200000,
        Body |-> "", ReadError |-> "none"],
       [Key |-> "c", Size |-> 600 * BytesPerMb, LastModified |-> 300000,
        Body |-> "d", ReadError |-> "none"] >>

(***************************************************************************)
(* Pure helpers of the scan.                                               *)
(***************************************************************************)
\* f"s3://{bucket_name}/{object_key}"
S3Path(bucket_name, object_key) == "s3://" \o bucket_name \o "/" \o object_key

\* f"azure://{container}/{blob.name}"
AzurePath(container_name, blob_name) ==
    "azure://" \o container_name \o "/" \o blob_name

\* str.endswith("/")
EndsWithSlash(key) == Len(key) >= 1 /\ SubSeq(key, Len(key), Len(key)) = "/"

\* str.startswith(prefix), the match that Prefix= / name_starts_with= asks for
StartsWith(key, prefix) ==
    Len(prefix) <= Len(key) /\ SubSeq(key, 1, Len(prefix)) = prefix

\* object_key.endswith("/") and obj["Size"] == 0
IsDirectoryMarker(obj) == EndsWithSlash(obj.Key) /\ obj.Size = 0

\* The membership test left out.
IngestedTestDropped(path, ingested_set) == FALSE

\* s3_path in ingested_set / blob_path in ingested_set
AlreadyIngested(path, ingested_set) == path \in ingested_set

\* int(obj["LastModified"].timestamp()): the float seconds cut to an integer
\* (timestamps here are not negative, where int() and floor differ)
IntTimestamp(ms) == ms \div 1000

\* The comparison with < in place of <=.
NotNewerStrict(last_modified, latest_created_at) ==
    last_modified < latest_created_at

\* last_modified <= latest_created_at
NotNewer(last_modified, latest_created_at) ==
    last_modified <= latest_created_at

\* The comparison with >= in place of >.
TooLargeInclusive(file_size, max_file_size_mb) ==
    file_size >= max_file_size_mb * BytesPerMb

\* file_size > max_file_size_mb * 1024 * 1024
TooLarge(file_size, max_file_size_mb) ==
    file_size > max_file_size_mb * BytesPerMb

\* hashlib.sha256(...).hexdigest(), on the contents the model stores
Sha256Hex(data) ==
    CASE data = "" ->
           "e3b0c44298fc1c149afbf4c8996fb92427ae41e4649b934ca495991b7852b855"
      [] data = "a" ->
           "ca978112ca1bbdcafac231b39a23dc4da786eff8147c4e72b9807785afee48bb"
      [] data = "b" ->
           "3e23e8160039594a33894f6564e1b1348bbd7a0088d42c4acb73eeaed59c009d"
      [] data = "c" ->
           "2e7d2c03a9507ae265ecf5b5356885a53393a2029d241394997265a1a25aefc6"
      [] data = "d" ->
           "18ac3e7343f016890c510e93f935261169d9e3f565436429830faf0934f4f8e4"

\* The S3 read loop: chunks of ChunkSize go into the hasher until a read
\* returns nothing; `hashed` is what hasher.update has taken so far.
RECURSIVE S3ReadLoop(_, _, _)
S3ReadLoop(body, pos, hashed) ==
    LET chunk == SubSeq(body, pos + 1, Min(pos + ChunkSize, Len(body)))
    IN  IF Len(chunk) = 0 THEN hashed
        ELSE S3ReadLoop(body, pos + Len(chunk), hashed \o chunk)

S3FileIdentifier(body) == Sha256Hex(S3ReadLoop(body, 0, ""))

\* hasher.update(downloader.readall()); hasher.hexdigest()
AzureFileIdentifier(body) == Sha256Hex(body)

\* The lookup in seen_identifiers left out.
NeverDuplicate(file_identifier, seen_identifiers) == FALSE

\* file_identifier in seen_identifiers
DuplicateContent(file_identifier, seen_identifiers) ==
    file_identifier \in seen_identifiers

IsBotoCoreError(err) == err = "BotoCoreError"

\* The handlers without the final except Exception.
S3CatchesBotoCoreOnly(err) == IsBotoCoreError(err)

\* except botocore.exceptions.BotoCoreError / except Exception
S3Catches(err) == IsBotoCoreError(err) \/ err # "none"

\* except Exception
AzureCatches(err) == err # "none"

(***************************************************************************)
(* Arguments of a call.                                                    *)
(***************************************************************************)
\* ingested_paths is any iterable: paths of both backends, some repeated.
IngestedChoices ==
    { <<>>,
      <<S3Path(BucketName, "a"), AzurePath(BucketName, "b/"),
        S3Path(BucketName, "a")>> }

ArgsDomain ==
    [container_name : {BucketName}, ingested_paths : IngestedChoices,
     latest_created_at : {50}, max_file_size_mb : {1},
     use_hash : BOOLEAN, prefix : {""}]

\* The arguments of the documented example: latestCreatedAt=50,
\* maxFileSizeMb=500 (the default), prefix="", no hashing, nothing ingested.
ExampleArgs ==
    [container_name |-> BucketName, ingested_paths |-> <<>>,
     latest_created_at |-> 50, max_file_size_mb |-> DefaultMaxFileSizeMb,
     use_hash |-> FALSE, prefix |-> ""]

(***************************************************************************)
(* The listing, page by page.                                              *)
(***************************************************************************)
\* What Prefix=prefix / name_starts_with=prefix makes the service list.
Listed(objects, prefix) ==
    SelectSeq(objects, LAMBDA o : StartsWith(o.Key, prefix))

\* A listing of n objects comes in ceil(n / PageSize) pages; an empty one
\* comes as a single page without "Contents".
NumPages(objects) ==
    IF Len(objects) = 0 THEN 1
    ELSE (Len(objects) + PageSize - 1) \div PageSize

PageContents(objects, k) ==
    SubSeq(objects, (k - 1) * PageSize + 1, Min(k * PageSize, Len(objects)))

(***************************************************************************)
(* The body of the scan loop for one listed object: what it does to the    *)
(* call's locals.  kind is "skip" (a continue), "append" (the path joins   *)
(* discovered_paths) or "raise" (an exception leaves files_discovery).     *)
(***************************************************************************)
Skip(seen) == [kind |-> "skip", path |-> "", seen |-> seen, error |-> "none"]
Raise(seen, err) ==
    [kind |-> "raise", path |-> "", seen |-> seen, error |-> err]
AppendPath(path, seen) ==
    [kind |-> "append", path |-> path, seen |-> seen, error |-> "none"]

S3Object(obj, args, ingested_set, seen_identifiers) ==
    LET s3_path == S3Path(args.container_name, obj.Key) IN
    IF IsDirectoryMarker(obj) THEN Skip(seen_identifiers)
    ELSE IF AlreadyIngested(s3_path, ingested_set) THEN Skip(seen_identifiers)
    \* obj["LastModified"] is read outside the try block
    ELSE IF obj.LastModified = NoTime THEN Raise(seen_identifiers, "KeyError")
    ELSE IF NotNewer(IntTimestamp(obj.LastModified), args.latest_created_at)
         THEN Skip(seen_identifiers)
    ELSE IF TooLarge(obj.Size, args.max_file_size_mb)
         THEN Skip(seen_identifiers)
    ELSE IF ~args.use_hash THEN AppendPath(s3_path, seen_identifiers)
    ELSE IF obj.ReadError # "none"
         THEN IF S3Catches(obj.ReadError) THEN Skip(seen_identifiers)
              ELSE Raise(seen_identifiers, obj.ReadError)
    ELSE LET file_identifier == S3FileIdentifier(obj.Body) IN
         IF DuplicateContent(file_identifier, seen_identifiers)
         THEN Skip(seen_identifiers)
         ELSE AppendPath(s3_path, seen_identifiers \cup {file_identifier})

\* blob.size or 0, on the integer sizes that the listings here report
BlobSize(blob) == IF blob.Size = 0 THEN 0 ELSE blob.Size

AzureObject(blob, args, ingested_set, seen_identifiers) ==
    LET blob_path == AzurePath(args.container_name, blob.Key) IN
    IF AlreadyIngested(blob_path, ingested_set) THEN Skip(seen_identifiers)
    ELSE IF blob.LastModified = NoTime THEN Skip(seen_identifiers)
    ELSE IF NotNewer(IntTimestamp(blob.LastModified), args.latest_created_at)
         THEN Skip(seen_identifiers)
    ELSE IF TooLarge(BlobSize(blob), args.max_file_size_mb)
         THEN Skip(seen_identifiers)
    ELSE IF ~args.use_hash THEN AppendPath(blob_path, seen_identifiers)
    ELSE IF blob.ReadError # "none"
         THEN IF AzureCatches(blob.ReadError) THEN Skip(seen_identifiers)
              ELSE Raise(seen_identifiers, blob.ReadError)
    ELSE LET file_identifier == AzureFileIdentifier(blob.Body) IN
         IF DuplicateContent(file_identifier, seen_identifiers)
         THEN Skip(seen_identifiers)
         ELSE AppendPath(blob_path, seen_identifiers \cup {file_identifier})

ScanObject(backend, obj, args, ingested_set, seen_identifiers) ==
    IF backend = "s3" THEN S3Object(obj, args, ingested_set, seen_identifiers)
    ELSE AzureObject(obj, args, ingested_set, seen_identifiers)

(***************************************************************************)
(* State of a call.                                                        *)
(***************************************************************************)
NoArgs == [container_name |-> "", ingested_paths |-> <<>>,
           latest_created_at |-> 0, max_file_size_mb |-> 0,
           use_hash |-> FALSE, prefix |-> ""]

IdleCall ==
    [pc |-> "idle", args |-> NoArgs, ingested_set |-> {},
     seen_identifiers |-> {}, discovered_paths |-> <<>>,
     next_page |-> 1, page |-> <<>>, listing_failed |-> FALSE,
     result |-> NoResult, error |-> "none"]

\* seen_identifiers kept in one place for all calls.
SharedSeenIdentifiers(c) ==
    UNION {calls[d].seen_identifiers : d \in CallIds}

\* seen_identifiers: set[str] = set() is a local of the call
SeenIdentifiers(c) == calls[c].seen_identifiers

ListedObjects(c) == Listed(container.objects, calls[c].args.prefix)

(***************************************************************************)
(* Fetching page k of the listing: the paginator (the ItemPaged of         *)
(* list_blobs) ends after the last page, and a page request that fails     *)
(* raises out of the for statement.                                        *)
(***************************************************************************)
\* A failed page request taken as the end of the listing.
FetchPageSwallow(objects, k, fails) ==
    IF k > NumPages(objects) \/ fails THEN [kind |-> "end", contents |-> <<>>]
    ELSE [kind |-> "page", contents |-> PageContents(objects, k)]

FetchPage(objects, k, fails) ==
    IF k > NumPages(objects) THEN [kind |-> "end", contents |-> <<>>]
    ELSE IF fails THEN [kind |-> "raise", contents |-> <<>>]
    ELSE [kind |-> "page", contents |-> PageContents(objects, k)]

(***************************************************************************)
(* Actions.                                                                *)
(***************************************************************************)
\* files_discovery is called: the locals are set up.
Start(c) ==
    /\ c \in live
    /\ calls[c].pc = "idle"
    /\ \E a \in offered :
         calls' = [calls EXCEPT ![c] =
                     [IdleCall EXCEPT !.pc = "paginate", !.args = a,
                                      !.ingested_set = Range(a.ingested_paths)]]
    /\ UNCHANGED <<container, live, offered>>

\* The for statement over the pages asks for the next page.
ListPage(c) ==
    /\ calls[c].pc = "paginate"
    /\ \E fails \in BOOLEAN :
         LET k == calls[c].next_page
             r == FetchPage(ListedObjects(c), k, fails)
             \* whether the service failed the request for page k
             failed == fails /\ k <= NumPages(ListedObjects(c))
         IN
         calls' = [calls EXCEPT ![c] =
            CASE r.kind = "end" ->
                   \* return discovered_paths
                   [@ EXCEPT !.pc = "returned", !.listing_failed = failed,
                             !.result = calls[c].discovered_paths]
              [] r.kind = "raise" ->
                   [@ EXCEPT !.pc = "raised", !.listing_failed = failed,
                             !.error = "ListingError"]
              [] r.kind = "page" ->
                   \* if "Contents" not in page: continue
                   [@ EXCEPT !.pc = IF Len(r.contents) = 0
                                    THEN "paginate" ELSE "page",
                             !.page = r.contents,
                             !.next_page = @ + 1]]
    /\ UNCHANGED <<container, live, offered>>

\* One pass of the loop body, on the next object of the page.
ProcessObject(c) ==
    /\ calls[c].pc = "page"
    /\ LET obj == Head(calls[c].page)
           r == ScanObject(container.backend, obj, calls[c].args,
                           calls[c].ingested_set, SeenIdentifiers(c))
           rest == Tail(calls[c].page)
       IN  calls' = [calls EXCEPT ![c] =
             IF r.kind = "raise"
             THEN [@ EXCEPT !.pc = "raised", !.error = r.error]
             ELSE [@ EXCEPT !.pc = IF Len(rest) = 0 THEN "paginate" ELSE "page",
                            !.page = rest,
                            !.seen_identifiers = r.seen,
                            !.discovered_paths =
                                IF r.kind = "append" THEN Append(@, r.path)
                                ELSE @]]
    /\ UNCHANGED <<container, live, offered>>

Next == \E c \in CallIds : Start(c) \/ ListPage(c) \/ ProcessObject(c)

(***************************************************************************)
(* Specifications.                                                         *)
(***************************************************************************)
Containers == [backend : Backends, objects : Listings \cup {ExampleListing}]

\* One call on any container.
Init ==
    /\ container \in Containers
    /\ live = {1}
    /\ offered = ArgsDomain \cup {ExampleArgs}
    /\ calls = [c \in CallIds |-> IdleCall]

Spec == Init /\ [][Next]_vars

\* Objects that every argument choice lets through to the hashing step.
SharedObjects ==
    {o \in ObjectDomain : o.LastModified = 51000 /\ o.Size = BytesPerMb}

SharedContainers ==
    [backend : Backends,
     objects : {l \in Listings : \A i \in 1..Len(l) : l[i] \in SharedObjects}]

\* NumCalls calls, interleaved in any way, on one unchanged container.
InitConcurrent ==
    /\ container \in SharedContainers
    /\ live = CallIds
    /\ offered = {a \in ArgsDomain : a.ingested_paths = <<>>}
    /\ calls = [c \in CallIds |-> IdleCall]

SpecConcurrent == InitConcurrent /\ [][Next]_vars

(***************************************************************************)
(* Vocabulary of the properties, in the terms of the specification.        *)
(***************************************************************************)
Active(c) == calls[c].pc # "idle"
Returned(c) == calls[c].pc = "returned"

\* The formatted path of a listed object on the container's backend.
FormattedPath(obj) ==
    (IF container.backend = "s3" THEN "s3://" ELSE "azure://")
        \o BucketName \o "/" \o obj.Key

\* The paths a call has found so far, and those it has returned.
Found(c) ==
    Range(calls[c].discovered_paths)
        \cup (IF calls[c].result = NoResult THEN {} ELSE Range(calls[c].result))

ObjectCount == Len(container.objects)
Object(i) == container.objects[i]

\* How many listed objects the call's loop body has already dealt with.
Scanned(c) ==
    Min((calls[c].next_page - 1) * PageSize, Len(ListedObjects(c)))
        - Len(calls[c].page)

Ingested(c, i) == FormattedPath(Object(i)) \in Range(calls[c].args.ingested_paths)
HasTime(i) == Object(i).LastModified # NoTime
Newer(c, i) ==
    HasTime(i) /\ Object(i).LastModified \div 1000 > calls[c].args.latest_created_at
SizeLimit(c) == calls[c].args.max_file_size_mb * 1024 * 1024
WithinSize(c, i) == Object(i).Size <= SizeLimit(c)
DirectoryMarker(i) == EndsWithSlash(Object(i).Key) /\ Object(i).Size = 0
Readable(i) == Object(i).ReadError = "none"
SameContent(i, j) == Object(i).Body = Object(j).Body

\* The object reaches the hashing step of its backend: S3 drops directory
\* markers first, the Azure scan has no such test.
ReachesHashing(c, i) ==
    /\ container.backend = "s3" => ~DirectoryMarker(i)
    /\ ~Ingested(c, i)
    /\ Newer(c, i)
    /\ WithinSize(c, i)

\* The object's digest is recorded by the call once the scan has passed it.
Recorded(c, i) ==
    /\ ReachesHashing(c, i)
    /\ Readable(i)
    /\ ~\E h \in 1..(i - 1) :
          ReachesHashing(c, h) /\ Readable(h) /\ SameContent(h, i)

(***************************************************************************)
(* C1.  No path that a call finds or returns is a member of the            *)
(* ingested_paths it was given: an object whose formatted path is ingested *)
(* never appears, whatever its size, modification time or content.         *)
(***************************************************************************)
C1_IngestedNeverReturned ==
    \A c \in CallIds :
        /\ \A p \in Found(c) : p \notin Range(calls[c].args.ingested_paths)
        /\ \A i \in 1..ObjectCount :
               Ingested(c, i) => FormattedPath(Object(i)) \notin Found(c)

\* A call has returned a non-empty list from a container holding an
\* ingested object that every other filter would let through.
C1_Witness ==
    \E c \in CallIds : \E i \in 1..ObjectCount :
        /\ Returned(c) /\ Len(calls[c].result) > 0
        /\ Ingested(c, i) /\ Newer(c, i) /\ WithinSize(c, i)
        /\ ~DirectoryMarker(i) /\ Readable(i)

(***************************************************************************)
(* C2.  An object whose last-modified time, in integer seconds, is less    *)
(* than or equal to latest_created_at is never found or returned; equality *)
(* excludes.                                                               *)
(***************************************************************************)
C2_NotNewerNeverReturned ==
    \A c \in CallIds : \A i \in 1..ObjectCount :
        (/\ Active(c)
         /\ HasTime(i)
         /\ Object(i).LastModified \div 1000 <= calls[c].args.latest_created_at)
        => FormattedPath(Object(i)) \notin Found(c)

\* A call has returned from a container holding an object modified at
\* exactly latest_created_at that every other filter would let through.
C2_Witness ==
    \E c \in CallIds : \E i \in 1..ObjectCount :
        /\ Returned(c)
        /\ HasTime(i)
        /\ Object(i).LastModified \div 1000 = calls[c].args.latest_created_at
        /\ ~Ingested(c, i) /\ WithinSize(c, i) /\ ~DirectoryMarker(i)
        /\ Readable(i)
        /\ \A h \in 1..ObjectCount : h # i => ~SameContent(h, i)

(***************************************************************************)
(* C3.  An object larger than max_file_size_mb * 1024 * 1024 bytes is      *)
(* never found or returned, and an object of exactly that size is returned *)
(* when it passes the other filters.                                       *)
(***************************************************************************)
PassesOtherFilters(c, i) ==
    /\ ~Ingested(c, i)
    /\ Newer(c, i)
    /\ calls[c].args.use_hash =>
         /\ Readable(i)
         /\ ~\E h \in 1..(i - 1) :
               /\ SameContent(h, i)
               /\ FormattedPath(Object(h)) \in Range(calls[c].result)

C3_SizeLimit ==
    \A c \in CallIds : \A i \in 1..ObjectCount :
        /\ (Active(c) /\ Object(i).Size > SizeLimit(c))
           => FormattedPath(Object(i)) \notin Found(c)
        /\ (Returned(c) /\ Object(i).Size = SizeLimit(c)
                /\ PassesOtherFilters(c, i))
           => FormattedPath(Object(i)) \in Range(calls[c].result)

\* A call has returned an object of exactly the limit and left out one that
\* is one byte larger and passes the other filters.
C3_Witness ==
    \E c \in CallIds : \E i \in 1..ObjectCount : \E j \in 1..ObjectCount :
        /\ Returned(c)
        /\ Object(i).Size = SizeLimit(c)
        /\ FormattedPath(Object(i)) \in Range(calls[c].result)
        /\ Object(j).Size = SizeLimit(c) + 1
        /\ ~Ingested(c, j) /\ Newer(c, j)

(***************************************************************************)
(* C4.  A listed entry whose name ends in "/" and whose size is 0 is never *)
(* found or returned, on either backend.                                   *)
(***************************************************************************)
C4_DirectoryMarkerNeverReturned ==
    \A c \in CallIds : \A i \in 1..ObjectCount :
        (Active(c) /\ DirectoryMarker(i))
        => FormattedPath(Object(i)) \notin Found(c)

(***************************************************************************)
(* C5 as stated.  With use_hash, no two returned entries have the same     *)
(* digest, and of two objects with identical content that both pass the    *)
(* ingested, recency and size filters (directory markers being dropped by  *)
(* the size filter) only the first listed is returned; without use_hash    *)
(* both are returned.                                                      *)
(***************************************************************************)
PassesCheapFilters(c, i) ==
    ~DirectoryMarker(i) /\ ~Ingested(c, i) /\ Newer(c, i) /\ WithinSize(c, i)

ResultObjects(c) ==
    {i \in 1..ObjectCount : FormattedPath(Object(i)) \in Range(calls[c].result)}

NoSharedDigest(c) ==
    /\ \A i \in ResultObjects(c) : \A j \in ResultObjects(c) :
           i # j => ~SameContent(i, j)
    /\ \A p \in 1..Len(calls[c].result) : \A q \in 1..Len(calls[c].result) :
           p # q => calls[c].result[p] # calls[c].result[q]

ScannedRecorded(c) ==
    {Sha256Hex(Object(h).Body) : h \in {h \in 1..Scanned(c) : Recorded(c, h)}}

C6_ReadErrorSkipsOneObject ==
    \A c \in CallIds : (Active(c) /\ calls[c].args.use_hash) =>
        \* a read error never leaves the call
        /\ calls[c].error \notin (ReadErrors \ {"none"})
        /\ calls[c].pc = "raised" => calls[c].error \in {"ListingError", "KeyError"}
        \* only the objects read without error leave their digest
        /\ calls[c].seen_identifiers = ScannedRecorded(c)
        /\ \A i \in 1..ObjectCount :
             (ReachesHashing(c, i) /\ ~Readable(i))
             => FormattedPath(Object(i)) \notin Found(c)
        \* every other qualifying object is returned
        /\ Returned(c) =>
             /\ Scanned(c) = ObjectCount
             /\ \A j \in 1..ObjectCount :
                  Recorded(c, j)
                  => FormattedPath(Object(j)) \in Range(calls[c].result)

\* A hashing call has returned an object listed after one with the same
\* content whose read raised.
C6_Witness ==
    \E c \in CallIds : \E i \in 1..ObjectCount : \E j \in 1..ObjectCount :
        /\ Returned(c) /\ calls[c].args.use_hash
        /\ i < j /\ SameContent(i, j)
        /\ ReachesHashing(c, i) /\ ~Readable(i)
        /\ ReachesHashing(c, j) /\ Readable(j)
        /\ calls[c].result = <<FormattedPath(Object(j))>>

(***************************************************************************)
(* C7.  A listed object without a modification time is skipped on both     *)
(* backends: it is never found or returned, and the call does not raise    *)
(* on it.                                                                  *)
(***************************************************************************)
RaisedOnObject(c) ==
    calls[c].pc = "raised" /\ calls[c].error # "ListingError"

C7_NoModificationTimeSkipped ==
    \A c \in CallIds : Active(c) =>
        /\ \A i \in 1..ObjectCount :
             ~HasTime(i) => FormattedPath(Object(i)) \notin Found(c)
        /\ RaisedOnObject(c) => HasTime(Scanned(c) + 1)

(***************************************************************************)
(* C8.  When a page request of the listing fails, on the first page or on  *)
(* a later one, the call ends with that error and returns no list, not     *)
(* even the paths it had found on earlier pages.                           *)
(***************************************************************************)
C8_ListingFailurePropagates ==
    \A c \in CallIds :
        /\ calls[c].listing_failed =>
             /\ calls[c].pc = "raised"
             /\ calls[c].error = "ListingError"
        /\ calls[c].pc = "raised" => calls[c].result = NoResult
        /\ calls[c].error = "ListingError" => calls[c].listing_failed

\* The request for a later page has failed after the call had found a path.
C8_Witness ==
    \E c \in CallIds :
        /\ calls[c].listing_failed
        /\ calls[c].next_page > 1
        /\ Len(calls[c].discovered_paths) > 0

(***************************************************************************)
(* C9.  The returned list is complete and in listing order, and for the    *)
(* documented example (a 1MB t=100, b/ 0 bytes t=200, c 600MB t=300;       *)
(* latest_created_at=50, max_file_size_mb=500, prefix "") it is exactly    *)
(* [path(a)].                                                              *)
(***************************************************************************)
Qualifies(c, i) ==
    /\ PassesCheapFilters(c, i)
    /\ calls[c].args.use_hash =>
         /\ Readable(i)
         /\ ~\E h \in 1..(i - 1) :
               ReachesHashing(c, h) /\ Readable(h) /\ SameContent(h, i)

IndexOfPath(p) == CHOOSE i \in 1..ObjectCount : FormattedPath(Object(i)) = p

CompleteInListingOrder(c) ==
    /\ \A i \in 1..ObjectCount : Qualifies(c, i) => i \in ResultObjects(c)
    /\ \A p \in Range(calls[c].result) :
           \E i \in 1..ObjectCount : FormattedPath(Object(i)) = p
    /\ \A p \in 1..Len(calls[c].result) : \A q \in 1..Len(calls[c].result) :
           p < q => IndexOfPath(calls[c].result[p]) < IndexOfPath(calls[c].result[q])

IsExample(c) ==
    container.objects = ExampleListing /\ calls[c].args = ExampleArgs

C9_CompleteOrderedAndExample ==
    \A c \in CallIds : Returned(c) =>
        /\ CompleteInListingOrder(c)
        /\ IsExample(c) => calls[c].result = <<FormattedPath(ExampleListing[1])>>

(***************************************************************************)
(* C10.  Calls share no state: whatever the interleaving of the calls on   *)
(* an unchanged container, each call records exactly the digests of the    *)
(* objects it has itself read, returns the list it would return alone, and *)
(* two calls with the same arguments return the same list.                 *)
(***************************************************************************)
Admitted(c, i) ==
    IF calls[c].args.use_hash THEN Recorded(c, i) ELSE ReachesHashing(c, i)

RECURSIVE AlonePaths(_, _)
AlonePaths(c, i) ==
    IF i > ObjectCount THEN <<>>
    ELSE (IF Admitted(c, i) THEN <<FormattedPath(Object(i))>> ELSE <<>>)
             \o AlonePaths(c, i + 1)

C10_CallsIndependent ==
    /\ \A c \in CallIds : Active(c) =>
         /\ calls[c].seen_identifiers =
              IF calls[c].args.use_hash THEN ScannedRecorded(c) ELSE {}
         /\ Returned(c) => calls[c].result = AlonePaths(c, 1)
    /\ \A c \in CallIds : \A d \in CallIds :
         (Returned(c) /\ Returned(d) /\ calls[c].args = calls[d].args)
         => calls[c].result = calls[d].result

\* Two hashing calls with the same arguments have both returned the first
\* of two objects with identical content, and only it.
C10_Witness ==
    \E c \in CallIds : \E d \in CallIds :
        /\ c # d /\ Returned(c) /\ Returned(d)
        /\ calls[c].args = calls[d].args /\ calls[c].args.use_hash
        /\ ObjectCount = 2 /\ SameContent(1, 2) /\ Readable(1) /\ Readable(2)
        /\ calls[c].result = <<FormattedPath(Object(1))>>
        /\ calls[d].result = <<FormattedPath(Object(1))>>

====
